---- MODULE Spec2Model ----
(***************************************************************************)
(* A model of mikeio's _UnstructuredGeometry (src/mikeio/dfsu.py): the     *)
(* node / element arrays of an unstructured mesh, re-indexing, subsetting  *)
(* to a new geometry, the layered (3D) index arrays and the lazily cached  *)
(* derived quantities.                                                     *)
(*                                                                         *)
(* Python values are modelled as follows.                                  *)
(*   - numpy arrays and lists are sequences; an id or index is 0-based as  *)
(*     in the code, so position p of an array is element p + 1 of the      *)
(*     sequence.                                                           *)
(*   - an attribute that may be None is an option: None is <<>> and a      *)
(*     value v is <<v>>.                                                   *)
(*   - the rows of an element table are Python list objects that several   *)
(*     tables may reference; they live in the heap `rows` and a table is a *)
(*     sequence of references into it.                                     *)
(*   - a call that raises returns ok = FALSE and the exception's name.     *)
(***************************************************************************)
EXTENDS Integers, Sequences, FiniteSets, TLC

VARIABLES
    g,      \* the geometry object the caller holds (built from raw arrays or a file)
    sub,    \* what the last subsetting call returned: None, or a geometry as Some(geometry)
    rows,   \* the heap of element-table row objects
    last    \* the last call: its name, receiver, arguments, outcome and return value

vars == <<g, sub, rows, last>>

----------------------------------------------------------------------------
(* Options, Python indexing, numpy helpers *)

None == <<>>
Some(v) == <<v>>
IsNone(o) == o = <<>>
Get(o) == o[1]

\* F(v) with v evaluated once (a LET definition is evaluated at every use)
With(v, F(_)) == CHOOSE y \in {F(a) : a \in {v}} : TRUE

Min(S) == CHOOSE x \in S : \A y \in S : x <= y
Max(S) == CHOOSE x \in S : \A y \in S : x >= y

\* list(range(n))
Range(n) == [k \in 1..n |-> k - 1]

\* An index i into a list or array of length n that does not raise IndexError:
\* Python accepts -n .. n-1, a negative index counting from the end.
InRange(i, n) == -n <= i /\ i < n
Pos(i, n) == IF i >= 0 THEN i + 1 ELSE n + i + 1
Item(s, i) == s[Pos(i, Len(s))]
AllInRange(idx, n) == \A k \in 1..Len(idx) : InRange(idx[k], n)

\* numpy fancy indexing s[idx]: a new array
Take(s, idx) == [k \in 1..Len(idx) |-> Item(s, idx[k])]

RECURSIVE SortedSeq(_)
SortedSeq(S) ==
    IF S = {} THEN <<>>
    ELSE LET m == Min(S) IN <<m>> \o SortedSeq(S \ {m})

Elems(s) == {s[k] : k \in 1..Len(s)}

\* np.unique(nodes): the sorted unique values
unique(s) == SortedSeq(Elems(s))

RECURSIVE Flatten(_)
Flatten(ss) == IF ss = <<>> THEN <<>> ELSE Head(ss) \o Flatten(Tail(ss))

RECURSIVE SumSeq(_)
SumSeq(s) == IF s = <<>> THEN 0 ELSE Head(s) + SumSeq(Tail(s))

\* The rows a table references
Deref(H, tbl) == [j \in 1..Len(tbl) |-> H[tbl[j]]]

----------------------------------------------------------------------------
(* The geometry object *)

\* _UnstructuredGeometry(): every attribute is the class default None.
\* `source` stands for the file handle of a file-backed geometry, of which the
\* model keeps what DfsuUtil.FindTopLayerElements returns for it, and `file`
\* for the X, Y and (1-based) ElementTable read from that handle.
Blank ==
    [type |-> None, projstr |-> "None",
     n_nodes |-> 0, n_elements |-> 0,
     nc |-> <<>>, ec |-> None, codes |-> <<>>, valid_codes |-> None,
     element_ids |-> <<>>, node_ids |-> <<>>, element_table |-> <<>>,
     top_elems |-> None, n_layers_column |-> None, bot_elems |-> None,
     n_layers |-> None, n_sigma |-> None, source |-> None, file |-> None]

TypeOf(geom) == Get(geom.type)

is_2d(geom) == TypeOf(geom) <= 0

set_nodes(geom, node_coordinates, codes, node_ids, projection_string) ==
    LET c == IF IsNone(codes)
             THEN [k \in 1..Len(node_coordinates) |-> 0]
             ELSE Get(codes)
        n == Len(c)
        ids == IF IsNone(node_ids) THEN Range(n) ELSE Get(node_ids)
        p == IF IsNone(projection_string) THEN "LONG/LAT"
             ELSE Get(projection_string)
    IN  [geom EXCEPT !.nc = node_coordinates, !.codes = c, !.n_nodes = n,
                     !.node_ids = ids, !.projstr = p]

max_nodes_per_element(table) ==
    IF table = <<>> THEN 0 ELSE Max({Len(table[j]) : j \in 1..Len(table)})

\* A faulty variant of guessed_type: an element of four nodes counts as layered
guessed_type_from_4(maxnodes) == IF maxnodes < 4 THEN 0 ELSE 4

\* The type set_elements guesses from max_nodes_per_element
guessed_type(maxnodes) == IF maxnodes < 5 THEN 0 ELSE 4

\* element_table is the caller's list of row objects (references into H)
set_elements(geom, H, element_table, element_ids, geometry_type) ==
    LET n == Len(element_table)
        ids == IF IsNone(element_ids) THEN Range(n) ELSE Get(element_ids)
        t == IF IsNone(geometry_type)
             THEN guessed_type(max_nodes_per_element(Deref(H, element_table)))
             ELSE Get(geometry_type)
    IN  [geom EXCEPT !.element_table = element_table, !.n_elements = n,
                     !.element_ids = ids, !.type = Some(t)]

\* A faulty variant of node_dict: the new numbers start at 1
node_dict_from_one(geom) ==
    LET m == IF Len(geom.node_ids) < geom.n_nodes
             THEN Len(geom.node_ids) ELSE geom.n_nodes
        keys == {geom.node_ids[k] : k \in 1..m}
    IN  [id \in keys |-> Max({k \in 1..m : geom.node_ids[k] = id})]

\* dict(zip(self.node_ids, new_node_ids)): zip stops at the shorter argument
\* and a repeated key keeps its last value
node_dict(geom) ==
    LET m == IF Len(geom.node_ids) < geom.n_nodes
             THEN Len(geom.node_ids) ELSE geom.n_nodes
        keys == {geom.node_ids[k] : k \in 1..m}
    IN  [id \in keys |-> Max({k \in 1..m : geom.node_ids[k] = id}) - 1]

\* A faulty variant of reindex: the new node numbers are written into the existing row
\* objects instead of into new lists.
reindex_in_place(geom, H) ==
    With(node_dict(geom), LAMBDA d :
    LET tbl == geom.element_table
        n == geom.n_elements
        bad == {j \in 1..n : \E i \in 1..Len(H[tbl[j]]) : H[tbl[j]][i] \notin DOMAIN d}
        stop == IF bad = {} THEN n + 1 ELSE Min(bad)
        done == {tbl[j] : j \in 1..(stop - 1)}
        H2 == [r \in 1..Len(H) |->
                 IF r \in done
                 THEN [i \in 1..Len(H[r]) |->
                         IF H[r][i] \in DOMAIN d THEN d[H[r][i]] ELSE H[r][i]]
                 ELSE H[r]]
    IN  IF bad = {}
        THEN [ok |-> TRUE, err |-> "", heap |-> H2,
              geom |-> [geom EXCEPT !.node_ids = Range(geom.n_nodes),
                                    !.element_ids = Range(n)]]
        ELSE [ok |-> FALSE, err |-> "KeyError", heap |-> H2, geom |-> geom])

\* A faulty variant of reindex: the ids are renumbered but the element table still
\* holds the old node ids.
reindex_ids_only(geom, H) ==
    [ok |-> TRUE, err |-> "", heap |-> H,
     geom |-> [geom EXCEPT !.node_ids = Range(geom.n_nodes),
                           !.element_ids = Range(geom.n_elements)]]

\* reindex(): every row is replaced, in the table's slot j, by a new list of the
\* new node numbers. A node id that is no key of node_dict raises KeyError at
\* its row: the rows before it are already replaced, the ids are not yet.
reindex(geom, H) ==
    With(node_dict(geom), LAMBDA d :
    LET tbl == geom.element_table
        n == geom.n_elements
        bad == {j \in 1..n : \E i \in 1..Len(H[tbl[j]]) : H[tbl[j]][i] \notin DOMAIN d}
        stop == IF bad = {} THEN n + 1 ELSE Min(bad)
        newrow(j) == [i \in 1..Len(H[tbl[j]]) |-> d[H[tbl[j]][i]]]
        H2 == H \o [j \in 1..(stop - 1) |-> newrow(j)]
        tbl2 == [j \in 1..n |-> IF j < stop THEN Len(H) + j ELSE tbl[j]]
    IN  IF bad = {}
        THEN [ok |-> TRUE, err |-> "", heap |-> H2,
              geom |-> [geom EXCEPT !.element_table = tbl2,
                                    !.node_ids = Range(geom.n_nodes),
                                    !.element_ids = Range(n)]]
        ELSE [ok |-> FALSE, err |-> "KeyError", heap |-> H2,
              geom |-> [geom EXCEPT !.element_table = tbl2]])

----------------------------------------------------------------------------
(* Subsetting *)

Fail(e, H) == [ok |-> FALSE, err |-> e, heap |-> H, nodes |-> <<>>, elem_tbl |-> <<>>]

\* A faulty variant of half_nodes: the halves are exchanged
half_nodes_exchanged(elem_nodes, node_layers) ==
    LET nn == Len(elem_nodes)
        halfn == nn \div 2
    IN  IF node_layers = "top" THEN SubSeq(elem_nodes, 1, halfn)
        ELSE IF node_layers = "bottom" THEN SubSeq(elem_nodes, halfn + 1, nn)
        ELSE elem_nodes

\* The part of a layered element's node list that node_layers keeps:
\* elem_nodes[:halfn] for 'bottom', elem_nodes[halfn:] for 'top', halfn = int(nn/2)
half_nodes(elem_nodes, node_layers) ==
    LET nn == Len(elem_nodes)
        halfn == nn \div 2
    IN  IF node_layers = "bottom" THEN SubSeq(elem_nodes, 1, halfn)
        ELSE IF node_layers = "top" THEN SubSeq(elem_nodes, halfn + 1, nn)
        ELSE elem_nodes

\* get_nodes_and_table_for_elements: in the first branch the returned table
\* holds the geometry's own row objects, in the second new lists (slices).
get_nodes_and_table_for_elements(geom, H, element_ids, node_layers) ==
    LET tbl == geom.element_table
        m == Len(element_ids)
        whole == node_layers = "None" \/ node_layers = "all" \/ TypeOf(geom) <= 0
        ref(k) == Item(tbl, element_ids[k])
    IN  IF whole
        THEN IF ~AllInRange(element_ids, Len(tbl)) THEN Fail("IndexError", H)
             ELSE [ok |-> TRUE, err |-> "", heap |-> H,
                   nodes |-> unique(Flatten([k \in 1..m |-> H[ref(k)]])),
                   elem_tbl |-> [k \in 1..m |-> ref(k)]]
        ELSE IF node_layers # "bottom" /\ node_layers # "top"
             THEN Fail("Exception: node_layers must be either all, bottom or top", H)
        ELSE IF ~AllInRange(element_ids, Len(tbl)) THEN Fail("IndexError", H)
        ELSE With([k \in 1..m |-> half_nodes(H[ref(k)], node_layers)], LAMBDA cut :
             [ok |-> TRUE, err |-> "", heap |-> H \o cut,
              nodes |-> unique(Flatten(cut)),
              elem_tbl |-> [k \in 1..m |-> Len(H) + k]])

NoGeom(e, H) == [ok |-> FALSE, err |-> e, heap |-> H, geom |-> Blank]

\* The new geometry of elements_to_geometry and to_2d_geometry before its type
\* and layer attributes are set: set_nodes and set_elements on a new object.
new_geometry(self, nt, elements) ==
    set_elements(
        set_nodes(Blank, Take(self.nc, nt.nodes), Some(Take(self.codes, nt.nodes)),
                  Some(nt.nodes), Some(self.projstr)),
        nt.heap, nt.elem_tbl, Some(Take(self.element_ids, elements)), None)

\* geom._type = self._type and, for a layered type, the layer attributes
with_type_and_layers(self, geom, elements) ==
    IF TypeOf(self) > 0
    THEN [geom EXCEPT !.type = self.type,
                      !.top_elems = Some(Take(Get(self.top_elems), elements)),
                      !.n_layers = self.n_layers,
                      !.n_sigma = self.n_sigma]
    ELSE [geom EXCEPT !.type = self.type]

elements_to_geometry(self, H, elements, node_layers) ==
    With(get_nodes_and_table_for_elements(self, H, elements, node_layers), LAMBDA nt :
    IF ~nt.ok THEN NoGeom(nt.err, H)
    ELSE IF ~AllInRange(nt.nodes, Len(self.nc)) THEN NoGeom("IndexError", H)
    ELSE IF ~AllInRange(nt.nodes, Len(self.codes)) THEN NoGeom("IndexError", H)
    ELSE IF ~AllInRange(elements, Len(self.element_ids)) THEN NoGeom("IndexError", H)
    ELSE IF TypeOf(self) > 0 /\ IsNone(self.top_elems) THEN NoGeom("TypeError", H)
    ELSE IF TypeOf(self) > 0 /\ ~AllInRange(elements, Len(Get(self.top_elems)))
         THEN NoGeom("IndexError", H)
    ELSE With(with_type_and_layers(self, new_geometry(self, nt, elements), elements),
              LAMBDA geom : reindex(geom, nt.heap)))

----------------------------------------------------------------------------
(* The layer index arrays (the cached properties of a layered geometry) *)

Val(geom, v) == [ok |-> TRUE, err |-> "", geom |-> geom, val |-> v]
Raise(geom, e) == [ok |-> FALSE, err |-> e, geom |-> geom, val |-> None]

\* Without layers the property prints a message and returns the attribute as it
\* is. A geometry that is not file-backed has no _source to compute it from.
top_element_ids(geom) ==
    IF IsNone(geom.n_layers) THEN Val(geom, geom.top_elems)
    ELSE IF IsNone(geom.top_elems)
         THEN IF IsNone(geom.source) THEN Raise(geom, "AttributeError")
              ELSE Val([geom EXCEPT !.top_elems = geom.source], geom.source)
    ELSE Val(geom, geom.top_elems)

\* top_elems - tmp, where tmp is top_elems shifted by one with tmp[0] = -1
forward_difference(top_elems) ==
    [c \in 1..Len(top_elems) |->
        top_elems[c] - (IF c = 1 THEN -1 ELSE top_elems[c - 1])]

num_layers_per_column(geom) ==
    IF IsNone(geom.n_layers) THEN Val(geom, geom.n_layers_column)
    ELSE IF IsNone(geom.n_layers_column)
         THEN With(top_element_ids(geom), LAMBDA t :
              IF ~t.ok THEN t
              ELSE IF Len(Get(t.val)) = 0 THEN Raise(t.geom, "IndexError")
              ELSE With(Some(forward_difference(Get(t.val))), LAMBDA nlc :
                   Val([t.geom EXCEPT !.n_layers_column = nlc], nlc)))
    ELSE Val(geom, geom.n_layers_column)

\* self.top_element_ids - self.num_layers_per_column + 1
bottom_element_ids(geom) ==
    IF IsNone(geom.n_layers) THEN Val(geom, geom.bot_elems)
    ELSE IF IsNone(geom.bot_elems)
         THEN With(top_element_ids(geom), LAMBDA t :
              IF ~t.ok THEN t
              ELSE With(num_layers_per_column(t.geom), LAMBDA c :
                   LET top == Get(t.val)
                       nlc == Get(c.val)
                   IN  IF ~c.ok THEN c
                       ELSE IF Len(top) # Len(nlc) THEN Raise(c.geom, "ValueError")
                       ELSE With(Some([k \in 1..Len(top) |-> top[k] - nlc[k] + 1]),
                                 LAMBDA bot : Val([c.geom EXCEPT !.bot_elems = bot], bot))))
    ELSE Val(geom, geom.bot_elems)

\* a[mask]: the entries of a where the boolean array mask is true
RECURSIVE Masked(_, _)
Masked(a, mask) ==
    IF a = <<>> THEN <<>>
    ELSE (IF Head(mask) THEN <<Head(a)>> ELSE <<>>) \o Masked(Tail(a), Tail(mask))

\* A faulty variant of folded_layer: the top layer n_lay is not folded
folded_below_top(n, n_lay, n_sigma) ==
    IF n > n_lay - n_sigma /\ n < n_lay THEN n - n_lay ELSE n

\* n after `if n > n_z and n <= n_lay: n = n - n_lay`
folded_layer(n, n_lay, n_sigma) ==
    IF n > n_lay - n_sigma /\ n <= n_lay THEN n - n_lay ELSE n

\* `if n < (-n_lay) or n > n_lay: raise`
layer_not_allowed(n, n_lay) == n < -n_lay \/ n > n_lay

\* A faulty variant of not_a_sigma_layer: layer -n_sigma is refused too
not_above_sigma(n, n_sigma) == n <= -n_sigma

\* `if n < -n_sigma: raise`, for n <= 0
not_a_sigma_layer(n, n_sigma) == n < -n_sigma

\* self.top_element_ids + n
sigma_layer_ids(geom, n) ==
    With(top_element_ids(geom), LAMBDA t :
    IF ~t.ok THEN t
    ELSE Val(t.geom, Some([k \in 1..Len(Get(t.val)) |-> Get(t.val)[k] + n])))

\* self.bottom_element_ids[self.num_layers_per_column >= (n_lay-n+1)] + n
z_layer_ids(geom, n, n_lay) ==
    With(bottom_element_ids(geom), LAMBDA b :
    IF ~b.ok THEN b
    ELSE With(num_layers_per_column(b.geom), LAMBDA c :
         LET bot == Get(b.val)
             nlc == Get(c.val)
             mask == [k \in 1..Len(nlc) |-> nlc[k] >= n_lay - n + 1]
         IN  IF ~c.ok THEN c
             ELSE IF Len(bot) # Len(nlc) THEN Raise(c.geom, "IndexError")
             ELSE With(Masked(bot, mask), LAMBDA sel :
                       Val(c.geom, Some([k \in 1..Len(sel) |-> sel[k] + n])))))

get_element_ids_layer_n(geom, n) ==
    IF IsNone(geom.n_layers) THEN Val(geom, None)
    ELSE LET n_lay == Get(geom.n_layers)
             n_sigma == Get(geom.n_sigma)
             n1 == folded_layer(n, n_lay, n_sigma)
         IN  IF layer_not_allowed(n1, n_lay)
             THEN Raise(geom, "Exception: Layer not allowed")
             ELSE IF n1 <= 0
                  THEN IF not_a_sigma_layer(n1, n_sigma)
                       THEN Raise(geom, "Exception: Negative layers only possible for sigma layers")
                       ELSE sigma_layer_ids(geom, n1)
             ELSE z_layer_ids(geom, n1, n_lay)

\* to_2d_geometry: `self` is the receiver afterwards (its layer arrays may have
\* been computed and cached); without layers the call prints and returns None
\* (returned = FALSE).
Result2d(r, sf, returned) ==
    [ok |-> r.ok, err |-> r.err, heap |-> r.heap, geom |-> r.geom,
     self |-> sf, returned |-> returned]

\* A faulty variant of as_mesh: the type set_elements guessed is kept
as_guessed(geom) == geom

\* geom._type = -1
as_mesh(geom) == [geom EXCEPT !.type = Some(-1)]

to_2d_geometry(self, H) ==
    IF IsNone(self.n_layers)
    THEN Result2d([NoGeom("", H) EXCEPT !.ok = TRUE], self, FALSE)
    ELSE With(bottom_element_ids(self), LAMBDA b :
    IF ~b.ok THEN Result2d(NoGeom(b.err, H), b.geom, FALSE)
    ELSE With(get_nodes_and_table_for_elements(b.geom, H, Get(b.val), "bottom"), LAMBDA nt :
    IF ~nt.ok THEN Result2d(NoGeom(nt.err, H), b.geom, FALSE)
    ELSE IF ~AllInRange(nt.nodes, Len(self.nc))
         THEN Result2d(NoGeom("IndexError", H), b.geom, FALSE)
    ELSE IF ~AllInRange(nt.nodes, Len(self.codes))
         THEN Result2d(NoGeom("IndexError", H), b.geom, FALSE)
    ELSE IF ~AllInRange(Get(b.val), Len(self.element_ids))
         THEN Result2d(NoGeom("IndexError", H), b.geom, FALSE)
    ELSE With(as_mesh(new_geometry(b.geom, nt, Get(b.val))), LAMBDA geom :
    With(reindex(geom, nt.heap), LAMBDA r : Result2d(r, b.geom, r.ok)))))

----------------------------------------------------------------------------
(* The other cached quantities *)

\* valid_codes: list(set(self.codes)), kept as the set
valid_codes(geom) ==
    IF IsNone(geom.valid_codes)
    THEN LET v == Some(Elems(geom.codes))
         IN  Val([geom EXCEPT !.valid_codes = v], v)
    ELSE Val(geom, geom.valid_codes)

\* get_element_coords: the mean of the coordinates of an element's nodes, the
\* node numbers of its row taken as positions of the coordinate array. The
\* model's coordinates are multiples of 24, so the mean of 3, 4, 6 or 8 of them
\* is the exact quotient.
get_element_coords(geom, H) ==
    With(Deref(H, geom.element_table), LAMBDA tbl :
    LET n == geom.n_elements
        mean(nodes, d) == SumSeq([i \in 1..Len(nodes) |-> Item(geom.nc, nodes[i])[d]])
                              \div Len(nodes)
        ec == Some([j \in 1..n |-> <<mean(tbl[j], 1), mean(tbl[j], 2), mean(tbl[j], 3)>>])
    IN  IF \E j \in 1..n : ~AllInRange(tbl[j], Len(geom.nc))
        THEN Raise(geom, "IndexError")
        ELSE Val([geom EXCEPT !.ec = ec], ec))

element_coordinates(geom, H) ==
    IF IsNone(geom.ec) THEN get_element_coords(geom, H) ELSE Val(geom, geom.ec)

\* get_node_coords(code): for a code that is not in valid_codes the message of
\* the print is an f-string that reads the name valid_codes, which is not
\* defined in the function, so NameError is raised before `raise Exception` is
\* reached. nc[self.codes == code] needs a mask as long as nc.
get_node_coords(geom, code) ==
    IF IsNone(code) THEN Val(geom, geom.nc)
    ELSE With(valid_codes(geom), LAMBDA v :
         IF Get(code) \notin Get(v.val) THEN Raise(v.geom, "NameError")
         ELSE IF Len(geom.codes) # Len(geom.nc) THEN Raise(v.geom, "IndexError")
         ELSE Val(v.geom, Masked(geom.nc,
                                 [k \in 1..Len(geom.codes) |-> geom.codes[k] = Get(code)])))

----------------------------------------------------------------------------
(* Polygons and areas *)

is_geo(geom) == geom.projstr = "LONG/LAT"

\* to_polygons(): the vertices of polygon j are node_coordinates[nodes[i] - 1, 0:2]
\* for the nodes of row j; an index of -1 is the last node
to_polygons(geom, H) ==
    With(Deref(H, geom.element_table), LAMBDA tbl :
    LET nidx(j) == [i \in 1..Len(tbl[j]) |-> tbl[j][i] - 1]
        pcoords(j) == [i \in 1..Len(tbl[j]) |->
                          <<Item(geom.nc, nidx(j)[i])[1], Item(geom.nc, nidx(j)[i])[2]>>]
    IN  IF geom.n_elements > Len(tbl) THEN Raise(geom, "IndexError")
        ELSE IF \E j \in 1..geom.n_elements : ~AllInRange(nidx(j), Len(geom.nc))
             THEN Raise(geom, "IndexError")
        ELSE Val(geom, [j \in 1..geom.n_elements |-> pcoords(j)]))

\* 0.5 * (abx * acy - aby * acx), plus 0.5 * (acx * ady - acy * adx) for more
\* than three nodes. The model's coordinates are multiples of 24, so the halves
\* are whole numbers.
signed_area(xy) ==
    LET abx == xy[2][1] - xy[1][1]
        aby == xy[2][2] - xy[1][2]
        acx == xy[3][1] - xy[1][1]
        acy == xy[3][2] - xy[1][2]
        adx == xy[4][1] - xy[1][1]
        ady == xy[4][2] - xy[1][2]
    IN  (abx * acy - aby * acx) \div 2
        + (IF Len(xy) > 3 THEN (acx * ady - acy * adx) \div 2 ELSE 0)

abs(a) == IF a < 0 THEN -a ELSE a

\* get_element_area(): the elements and the node coordinates are read from
\* self._source, which only a geometry read from a file has. converted tells
\* that the edge vectors were turned from degrees into metres (is_geo), which
\* the model does not compute: area then holds the areas in square degrees.
get_element_area(geom) ==
    IF IsNone(geom.file) THEN Raise(geom, "AttributeError")
    ELSE LET src == Get(geom.file)
             tbl == src.ElementTable
             corner(j, i) == <<Item(src.X, tbl[j][i] - 1), Item(src.Y, tbl[j][i] - 1)>>
             xy(j) == [i \in 1..Len(tbl[j]) |-> corner(j, i)]
         IN  IF \E j \in 1..Len(tbl) : ~AllInRange([i \in 1..Len(tbl[j]) |-> tbl[j][i] - 1],
                                                  Len(src.X))
             THEN Raise(geom, "IndexError")
             ELSE Val(geom, [converted |-> is_geo(geom),
                             area |-> [j \in 1..Len(tbl) |-> abs(signed_area(xy(j)))]])

----------------------------------------------------------------------------
(* Searching by centroid *)

\* ((ec - poi) ** 2).sum(axis=1) for one centroid: over x and y when z is
\* None, over x, y and z otherwise
squared_distance(c, x, y, z) ==
    (c[1] - x) * (c[1] - x) + (c[2] - y) * (c[2] - y)
        + (IF IsNone(z) THEN 0 ELSE (c[3] - Get(z)) * (c[3] - Get(z)))

\* d.argsort() with numpy's default kind, which is not a stable sort: any
\* order of the places 0..len(d)-1 that puts d in non-decreasing order; how
\* equal entries come out depends on the sort and on the length of d
argsort(d) ==
    {p \in [1..Len(d) -> 0..(Len(d) - 1)] :
        /\ \A a, b \in 1..Len(d) : a < b => p[a] # p[b] /\ d[p[a] + 1] <= d[p[b] + 1]}

\* The outcomes of find_n_closest_element_index: idx[0] for n = 1, else idx
find_n_closest_element_index(geom, H, x, y, z, n) ==
    With(element_coordinates(geom, H), LAMBDA e :
    IF ~e.ok THEN {e}
    ELSE LET ec == Get(e.val)
             d == [j \in 1..Len(ec) |-> squared_distance(ec[j], x, y, z)]
         IN  {IF n = 1
              THEN (IF Len(p) = 0 THEN Raise(e.geom, "IndexError")
                    ELSE Val(e.geom, [scalar |-> TRUE, idx |-> <<p[1]>>]))
              ELSE Val(e.geom, [scalar |-> FALSE, idx |-> SubSeq(p, 1, Min({n, Len(p)}))])
              : p \in argsort(d)})

\* The outcomes of the loop `for j in range(nx): idx[j] = ...(x[j], y[j], z[j], n=1)`
\* from point j on, idx so far being done: z[j] raises IndexError past the end
\* of z, and the first call computes and caches the centroids
RECURSIVE closest_from(_, _, _, _, _, _, _)
closest_from(geom, H, x, y, z, j, done) ==
    IF j > Len(x) THEN {Val(geom, [scalar |-> FALSE, idx |-> done])}
    ELSE IF ~IsNone(z) /\ j > Len(Get(z)) THEN {Raise(geom, "IndexError")}
    ELSE UNION {IF ~r.ok THEN {r}
                ELSE closest_from(r.geom, H, x, y, z, j + 1, done \o r.val.idx)
                : r \in find_n_closest_element_index(
                            geom, H, x[j], y[j],
                            IF IsNone(z) THEN None ELSE Some(Get(z)[j]), 1)}

\* find_closest_element_index(x, y, z): q.scalar tells whether x is a scalar,
\* and then q.x, q.y and q.z hold the one point
find_closest_element_index(geom, H, q) ==
    IF q.scalar
    THEN find_n_closest_element_index(geom, H, q.x[1], q.y[1],
                                      IF IsNone(q.z) THEN None ELSE Some(Get(q.z)[1]), 1)
    ELSE IF Len(q.x) # Len(q.y) THEN {Raise(geom, "Exception")}
    ELSE closest_from(geom, H, q.x, q.y, q.z, 1, <<>>)

----------------------------------------------------------------------------
(* The geometries a caller starts from *)

\* A horizontal mesh of two triangles on four nodes
FootprintXY == << <<0, 0>>, <<24, 0>>, <<0, 24>>, <<24, 24>> >>
FootprintCodes == <<1, 1, 1, 0>>
FootprintTable == << <<0, 1, 2>>, <<1, 3, 2>> >>

XYZ(xy, z) == <<xy[1], xy[2], z>>

\* A geometry built from raw arrays: set_nodes, then set_elements with the
\* table's rows as new list objects 1..n of the heap
Built(coords, codes, node_ids, proj, table, element_ids, geometry_type) ==
    set_elements(set_nodes(Blank, coords, codes, node_ids, proj),
                 table, [j \in 1..Len(table) |-> j], element_ids, geometry_type)

Mesh2D(node_ids, element_ids, table) ==
    [geom |-> Built([p \in 1..4 |-> XYZ(FootprintXY[p], 0)], Some(FootprintCodes),
                    node_ids, Some("UTM-32"), table, element_ids, None),
     heap |-> table]

\* A layered file: every column of the footprint carries nlc[c] prisms, all
\* columns share the top layers, and nodes and elements are numbered stack by
\* stack from the bottom up (what the file reader supplies, 0-based).
LayeredFile(nlc, n_lay, n_sigma) ==
    LET fp == FootprintTable
        depth(p) == Max({nlc[c] : c \in {c \in 1..Len(fp) : p - 1 \in Elems(fp[c])}})
        offset(p) == SumSeq([q \in 1..(p - 1) |-> depth(q) + 1])
        node(p, k) == offset(p) + depth(p) - k
        stack(p) == [i \in 1..(depth(p) + 1) |->
                        XYZ(FootprintXY[p], -24 * (depth(p) - (i - 1)))]
        coords == Flatten([p \in 1..Len(FootprintXY) |-> stack(p)])
        codestack(p) == [i \in 1..(depth(p) + 1) |-> FootprintCodes[p]]
        codes == Flatten([p \in 1..Len(FootprintXY) |-> codestack(p)])
        prism(c, j) == [i \in 1..3 |-> node(fp[c][i] + 1, nlc[c] - j + 1)]
                       \o [i \in 1..3 |-> node(fp[c][i] + 1, nlc[c] - j)]
        table == Flatten([c \in 1..Len(fp) |-> [j \in 1..nlc[c] |-> prism(c, j)]])
        top == [c \in 1..Len(fp) |-> SumSeq(SubSeq(nlc, 1, c)) - 1]
        built == Built(coords, Some(codes), None, Some("UTM-32"), table, None,
                       Some(IF n_sigma = n_lay THEN 4 ELSE 5))
    IN  [geom |-> [built EXCEPT !.n_layers = Some(n_lay), !.n_sigma = Some(n_sigma),
                                !.source = Some(top),
                                !.file = Some([X |-> [p \in 1..Len(coords) |-> coords[p][1]],
                                               Y |-> [p \in 1..Len(coords) |-> coords[p][2]],
                                               ElementTable |->
                                                  [j \in 1..Len(table) |->
                                                     [i \in 1..Len(table[j]) |->
                                                        table[j][i] + 1]]])],
         heap |-> table]

\* Layered files, <<layers per column, n_layers, n_sigma>>: sigma files of one
\* and two layers, and sigma-z files whose columns differ in depth
LayeredFiles ==
    {LayeredFile(x[1], x[2], x[3]) :
        x \in {<< <<1, 1>>, 1, 1 >>, << <<2, 2>>, 2, 2 >>, << <<2, 1>>, 2, 1 >>,
               << <<2, 3>>, 3, 2 >>, << <<3, 1>>, 3, 1 >>}}

\* 2D meshes with dense ids, with ids that are a permutation of the positions
\* and with ids that are not positions at all
Meshes2D ==
    {Mesh2D(None, None, FootprintTable),
     Mesh2D(Some(<<1, 0, 2, 3>>), Some(<<1, 0>>), FootprintTable),
     Mesh2D(Some(<<10, 20, 30, 40>>), Some(<<5, 7>>),
            << <<10, 20, 30>>, <<20, 40, 30>> >>)}

StartGeometries == Meshes2D \cup LayeredFiles

----------------------------------------------------------------------------
(* Arguments of the calls *)

MaxSel == 2

\* Selections of a geometry's element ids: up to MaxSel distinct ids in any order
Selections(geom) ==
    {e \in UNION {[1..k -> Elems(geom.element_ids)] : k \in 1..MaxSel} :
        \A a, b \in 1..Len(e) : a # b => e[a] # e[b]}

NodeLayers == {"all", "top", "bottom"}

\* Values a caller may pass for node_layers, one of them none of the three
AnyNodeLayers == NodeLayers \cup {"middle"}

\* Points to search from: on a centroid of the 2D mesh, at equal distance from
\* both of its centroids, and on centroids of the layered files
Points ==
    {[x |-> 8, y |-> 8, z |-> None], [x |-> 12, y |-> 12, z |-> None],
     [x |-> 8, y |-> 8, z |-> Some(-12)], [x |-> 16, y |-> 16, z |-> Some(-36)]}

\* Arguments of find_closest_element_index: a scalar point, sequences of equal
\* length without and with z, y shorter than x, z longer and z shorter than x
Queries ==
    {[scalar |-> TRUE, x |-> <<8>>, y |-> <<8>>, z |-> None],
     [scalar |-> FALSE, x |-> <<8, 12>>, y |-> <<8, 12>>, z |-> None],
     [scalar |-> FALSE, x |-> <<8, 16>>, y |-> <<8, 16>>, z |-> Some(<<-12, -36>>)],
     [scalar |-> FALSE, x |-> <<8, 12>>, y |-> <<8>>, z |-> None],
     [scalar |-> FALSE, x |-> <<8>>, y |-> <<8>>, z |-> Some(<<-12, -36>>)],
     [scalar |-> FALSE, x |-> <<8, 16>>, y |-> <<8, 16>>, z |-> Some(<<-12>>)]}

\* How many elements to return
Counts == {1, 2}

\* Layer numbers from below -n_layers to above n_layers
LayerNumbers(geom) ==
    IF IsNone(geom.n_layers) THEN {0, 1}
    ELSE (-(Get(geom.n_layers) + 1))..(Get(geom.n_layers) + 1)

\* Arguments of set_nodes: defaults for codes, ids and projection, and all given
\* with ids that are not positions
NodeInputs ==
    {[coords |-> << <<0, 0, 0>>, <<24, 0, 0>>, <<0, 24, 0>> >>,
      codes |-> None, ids |-> None, proj |-> None],
     [coords |-> << <<0, 0, 24>>, <<48, 0, 24>>, <<0, 48, 24>>, <<48, 48, 24>> >>,
      codes |-> Some(<<0, 2, 2, 3>>), ids |-> Some(<<10, 20, 30, 40>>),
      proj |-> Some("NON-UTM")]}

\* Arguments of set_nodes whose codes or ids are not as many as the coordinates
MismatchedNodeInputs ==
    {[coords |-> << <<0, 0, 0>>, <<24, 0, 0>>, <<0, 24, 0>> >>,
      codes |-> Some(<<1, 1, 1, 0>>), ids |-> None, proj |-> Some("UTM-32")],
     [coords |-> << <<0, 0, 0>>, <<24, 0, 0>>, <<0, 24, 0>> >>,
      codes |-> None, ids |-> Some(<<0, 1, 2, 3>>), proj |-> Some("UTM-32")]}

\* The code argument of get_node_coords: omitted, or a code
Codes == {None, Some(0), Some(1), Some(2), Some(5)}

\* Arguments of set_elements
ElementInputs ==
    {[table |-> << <<0, 1, 2>> >>, ids |-> None, type |-> None],
     [table |-> << <<10, 20, 30>>, <<20, 40, 30>> >>, ids |-> Some(<<5, 7>>),
      type |-> None]}

\* More arguments of set_elements: a quadrilateral and a prism without a type,
\* and a type given by the caller that the guess would not give
MoreElementInputs ==
    {[table |-> << <<0, 1, 3, 2>> >>, ids |-> None, type |-> None],
     [table |-> << <<0, 1, 2, 3, 4, 5>>, <<0, 1, 2>> >>, ids |-> None, type |-> None],
     [table |-> << <<0, 1, 2>>, <<1, 3, 2>> >>, ids |-> Some(<<1, 0>>), type |-> Some(5)],
     [table |-> << <<0, 1, 2, 3, 4, 5>> >>, ids |-> None, type |-> Some(-1)]}

----------------------------------------------------------------------------
(* The state machine *)

\* What a call leaves in `last`. pre: for reindex, the receiver's ids and table
\* before the call.
Call(op, self, args, ok, err, val, pre) ==
    [op |-> op, self |-> self, args |-> args, ok |-> ok, err |-> err,
     val |-> val, pre |-> pre]

\* The node and element arrays of a geometry, the table by value
Structure(geom, H) ==
    [nc |-> geom.nc, codes |-> geom.codes, node_ids |-> geom.node_ids,
     element_ids |-> geom.element_ids, table |-> Deref(H, geom.element_table)]

RECURSIVE Dedup(_, _)
Dedup(s, seen) ==
    IF s = <<>> THEN <<>>
    ELSE IF Head(s) \in seen THEN Dedup(Tail(s), seen)
    ELSE <<Head(s)>> \o Dedup(Tail(s), seen \cup {Head(s)})

\* Row objects no table references are garbage; the live ones are renumbered in
\* the order the tables reference them, so that a state does not depend on the
\* addresses of its objects.
Compact(gm, sb, H) ==
    With(Dedup(gm.element_table
               \o (IF IsNone(sb) THEN <<>> ELSE Get(sb).element_table), {}), LAMBDA order :
    LET new(r) == CHOOSE k \in 1..Len(order) : order[k] = r
        ren(tbl) == [j \in 1..Len(tbl) |-> new(tbl[j])]
    IN  [g |-> [gm EXCEPT !.element_table = ren(@)],
         sub |-> IF IsNone(sb) THEN None
                 ELSE Some([Get(sb) EXCEPT !.element_table = ren(@)]),
         rows |-> [k \in 1..Len(order) |-> H[order[k]]]])

Commit(gm, sb, H, l) ==
    \E c \in {Compact(gm, sb, H)} :
        g' = c.g /\ sub' = c.sub /\ rows' = c.rows /\ last' = l

Exists(self) == self = "g" \/ (self = "sub" /\ ~IsNone(sub))
Target(self) == IF self = "g" THEN g ELSE Get(sub)

\* The receiver `self` becomes geom
Update(self, geom, H, l) ==
    IF self = "g" THEN Commit(geom, sub, H, l) ELSE Commit(g, Some(geom), H, l)

Init ==
    \E s \in StartGeometries :
        /\ g = s.geom
        /\ rows = s.heap
        /\ sub = None
        /\ last = Call("init", "g", None, TRUE, "", None, None)

SetNodes(self, in) ==
    /\ Exists(self)
    /\ Update(self, set_nodes(Target(self), in.coords, in.codes, in.ids, in.proj), rows,
              Call("set_nodes", self, in, TRUE, "", None, None))

\* The caller's table is a list of new row objects
SetElements(self, in) ==
    /\ Exists(self)
    /\ \E H \in {rows \o in.table} :
          Update(self, set_elements(Target(self), H,
                                    [j \in 1..Len(in.table) |-> Len(rows) + j],
                                    in.ids, in.type),
                 H, Call("set_elements", self, in, TRUE, "", None, None))

Reindex(self) ==
    /\ Exists(self)
    /\ \E r \in {reindex(Target(self), rows)} :
          Update(self, r.geom, r.heap,
                 Call("reindex", self, None, r.ok, r.err, None,
                      Some(Structure(Target(self), rows))))

\* sub = g.elements_to_geometry(elements, node_layers); a call that raises
\* leaves the caller without a result
ElementsToGeometry(elements, node_layers) ==
    \E r \in {elements_to_geometry(g, rows, elements, node_layers)} :
        Commit(g, IF r.ok THEN Some(r.geom) ELSE None, IF r.ok THEN r.heap ELSE rows,
               Call("elements_to_geometry", "g", <<elements, node_layers>>,
                    r.ok, r.err, None, None))

\* sub = g.to_2d_geometry(); val: whether a geometry (not None) was returned
To2dGeometry ==
    \E r \in {to_2d_geometry(g, rows)} :
        Commit(r.self, IF r.returned THEN Some(r.geom) ELSE None,
               IF r.returned THEN r.heap ELSE rows,
               Call("to_2d_geometry", "g", None, r.ok, r.err, r.returned, None))

\* A read of a cached property or a query: the receiver may have filled caches
Read(op, self, args, r) ==
    Update(self, r.geom, rows, Call(op, self, args, r.ok, r.err, r.val, None))

TopElementIds(self) ==
    /\ Exists(self)
    /\ \E r \in {top_element_ids(Target(self))} : Read("top_element_ids", self, None, r)

NumLayersPerColumn(self) ==
    /\ Exists(self)
    /\ \E r \in {num_layers_per_column(Target(self))} :
          Read("num_layers_per_column", self, None, r)

BottomElementIds(self) ==
    /\ Exists(self)
    /\ \E r \in {bottom_element_ids(Target(self))} :
          Read("bottom_element_ids", self, None, r)

GetElementIdsLayerN(self, n) ==
    /\ Exists(self)
    /\ \E r \in {get_element_ids_layer_n(Target(self), n)} :
          Read("get_element_ids_layer_n", self, n, r)

ValidCodes(self) ==
    /\ Exists(self)
    /\ \E r \in {valid_codes(Target(self))} : Read("valid_codes", self, None, r)

ElementCoordinates(self) ==
    /\ Exists(self)
    /\ \E r \in {element_coordinates(Target(self), rows)} :
          Read("element_coordinates", self, None, r)

\* The returned table is handed back by value; its new lists are dropped
GetNodesAndTableForElements(self, elements, node_layers) ==
    /\ Exists(self)
    /\ \E r \in {get_nodes_and_table_for_elements(Target(self), rows, elements,
                                                  node_layers)} :
          /\ last' = Call("get_nodes_and_table_for_elements", self,
                          <<elements, node_layers>>, r.ok, r.err,
                          [nodes |-> r.nodes, elem_tbl |-> Deref(r.heap, r.elem_tbl)],
                          None)
          /\ UNCHANGED <<g, sub, rows>>

\* Subsetting: a geometry is extracted from g and the caller goes on to work
\* with the result
Next ==
    \/ \E elements \in Selections(g), node_layers \in NodeLayers :
            ElementsToGeometry(elements, node_layers)
    \/ To2dGeometry
    \/ TopElementIds("g")
    \/ Reindex("sub")
    \/ \E in \in NodeInputs : SetNodes("sub", in)
    \/ \E in \in ElementInputs : SetElements("sub", in)

Spec == Init /\ [][Next]_vars

\* Editing: the arrays of g are replaced and renumbered between reads
NextEdit ==
    \/ Reindex("g")
    \/ \E in \in NodeInputs : SetNodes("g", in)
    \/ \E in \in ElementInputs : SetElements("g", in)
    \/ ValidCodes("g")
    \/ ElementCoordinates("g")
    \/ TopElementIds("g")
    \/ NumLayersPerColumn("g")
    \/ BottomElementIds("g")

SpecEdit == Init /\ [][NextEdit]_vars

\* Queries on g
NextQuery ==
    \/ \E elements \in Selections(g), node_layers \in NodeLayers :
            GetNodesAndTableForElements("g", elements, node_layers)
    \/ \E n \in LayerNumbers(g) : GetElementIdsLayerN("g", n)

SpecQuery == Init /\ [][NextQuery]_vars

FindNClosestElementIndex(self, pt, n) ==
    /\ Exists(self)
    /\ \E r \in find_n_closest_element_index(Target(self), rows, pt.x, pt.y, pt.z, n) :
          Read("find_n_closest_element_index", self, [pt |-> pt, n |-> n], r)

FindClosestElementIndex(self, q) ==
    /\ Exists(self)
    /\ \E r \in find_closest_element_index(Target(self), rows, q) :
          Read("find_closest_element_index", self, q, r)

GetElementArea(self) ==
    /\ Exists(self)
    /\ \E r \in {get_element_area(Target(self))} : Read("get_element_area", self, None, r)

ToPolygons(self) ==
    /\ Exists(self)
    /\ \E r \in {to_polygons(Target(self), rows)} : Read("to_polygons", self, None, r)

\* Searches and measures on g
NextMeasure ==
    \/ ToPolygons("g")
    \/ GetElementArea("g")
    \/ \E pt \in Points, n \in Counts : FindNClosestElementIndex("g", pt, n)
    \/ \E q \in Queries : FindClosestElementIndex("g", q)
    \/ ElementCoordinates("g")

SpecMeasure == Init /\ [][NextMeasure]_vars

GetNodeCoords(self, code) ==
    /\ Exists(self)
    /\ \E r \in {get_node_coords(Target(self), code)} :
          Read("get_node_coords", self, code, r)

\* Calls with arguments the operations have to refuse, and layer queries on
\* geometries without layers
NextArgs ==
    \/ \E elements \in Selections(g), node_layers \in AnyNodeLayers :
            ElementsToGeometry(elements, node_layers)
    \/ To2dGeometry
    \/ NumLayersPerColumn("g")

SpecArgs == Init /\ [][NextArgs]_vars

\* The elements of g are replaced, with and without ids and type
NextElements ==
    \/ \E in \in ElementInputs \cup MoreElementInputs : SetElements("g", in)
    \/ Reindex("g")
    \/ ElementCoordinates("g")

SpecElements == Init /\ [][NextElements]_vars

\* The nodes of g are replaced, with arrays of equal and of unequal lengths,
\* and read by code
NextNodes ==
    \/ \E in \in NodeInputs \cup MismatchedNodeInputs : SetNodes("g", in)
    \/ ValidCodes("g")
    \/ \E code \in Codes : GetNodeCoords("g", code)

SpecNodes == Init /\ [][NextNodes]_vars

----------------------------------------------------------------------------
(* Properties *)

\* Every node id of every row is the id of a node of the geometry
RefIntegrity(node_ids, table) ==
    \A j \in 1..Len(table) : \A i \in 1..Len(table[j]) : table[j][i] \in Elems(node_ids)

StrictlyIncreasing(s) == \A a, b \in 1..Len(s) : a < b => s[a] < s[b]

Layered(geom) == ~IsNone(geom.n_layers)

C2_SubsetRefIntegrity ==
    (last.op \in {"elements_to_geometry", "to_2d_geometry"} /\ ~IsNone(sub)
        /\ RefIntegrity(g.node_ids, Deref(rows, g.element_table))) =>
        /\ RefIntegrity(Get(sub).node_ids, Deref(rows, Get(sub).element_table))
        /\ Get(sub).n_nodes = Len(Get(sub).node_ids)
        /\ Get(sub).n_nodes = Len(Get(sub).nc)

\* C2's case: two prisms of a layered geometry extracted with their top nodes
C2_Witness ==
    /\ last.op = "elements_to_geometry" /\ ~IsNone(sub)
    /\ Layered(g) /\ last.args[2] = "top" /\ Len(last.args[1]) = 2

\* C3: to_2d_geometry() on a layered geometry returns a geometry with one
\* element per vertical column (len(top_element_ids)), of type Mesh (-1) and
\* without layer count, sigma count or top-element array.
C3_To2dIsMesh ==
    (last.op = "to_2d_geometry" /\ Layered(g)) =>
        /\ last.ok /\ ~IsNone(sub)
        /\ Get(sub).n_elements = Len(Get(g.top_elems))
        /\ Get(sub).n_elements = Len(FootprintTable)
        /\ Len(Get(sub).element_table) = Get(sub).n_elements
        /\ Get(sub).type = Some(-1)
        /\ IsNone(Get(sub).n_layers)
        /\ IsNone(Get(sub).n_sigma)
        /\ IsNone(Get(sub).top_elems)

\* C3's case: the 2D geometry of a sigma-z file whose columns differ in depth
C3_Witness ==
    /\ last.op = "to_2d_geometry" /\ ~IsNone(sub)
    /\ Layered(g) /\ Get(g.n_layers) = 3 /\ Get(g.n_sigma) = 1

\* The sum of num_layers_per_column over the columns of a layered geometry
LayerSum(geom) == SumSeq(Get(num_layers_per_column(geom).val))

\* C4: in every layered geometry, also one elements_to_geometry returned from a
\* layered geometry, num_layers_per_column sums to n_elements.
C4_LayerSumIsElementCount ==
    /\ Layered(g) => LayerSum(g) = g.n_elements
    /\ (last.op = "elements_to_geometry" /\ ~IsNone(sub) /\ Layered(g)) =>
            LayerSum(Get(sub)) = Get(sub).n_elements

\* The part of C4 about the geometry read from a file
C4_FileLayerSum == Layered(g) => LayerSum(g) = g.n_elements

\* The column of element e of a layered file with top elements top
ColumnOf(top, e) == Min({c \in 1..Len(top) : e <= top[c]})

\* C7: elements_to_geometry on a layered geometry returns a geometry with the
\* source's projection, layer count and sigma count, whose top-element array
\* has one entry per column of the result, increasing, each an element id of
\* the result.
C7_SubsetTopElements ==
    (last.op = "elements_to_geometry" /\ ~IsNone(sub) /\ TypeOf(g) > 0) =>
        LET geom == Get(sub)
            top == Get(geom.top_elems)
            columns == {ColumnOf(Get(g.source), e) : e \in Elems(last.args[1])}
        IN  /\ geom.projstr = g.projstr
            /\ geom.n_layers = g.n_layers
            /\ geom.n_sigma = g.n_sigma
            /\ Len(top) = Cardinality(columns)
            /\ StrictlyIncreasing(top)
            /\ \A c \in 1..Len(top) : top[c] \in 0..(geom.n_elements - 1)

\* What elements_to_geometry does carry over from a layered geometry
C7_CarriedOver ==
    (last.op = "elements_to_geometry" /\ ~IsNone(sub) /\ TypeOf(g) > 0) =>
        /\ Get(sub).projstr = g.projstr
        /\ Get(sub).n_layers = g.n_layers
        /\ Get(sub).n_sigma = g.n_sigma
        /\ Get(sub).top_elems = Some(Take(Get(g.top_elems), last.args[1]))

\* C8: no call changes the node coordinates, codes, node ids, element ids or
\* element table of the source g: not elements_to_geometry or to_2d_geometry
\* (with the reindex() of the result), and not a later reindex(), set_nodes or
\* set_elements on the geometry returned.
C8_SourceUnchanged == [][Structure(g, rows)' = Structure(g, rows)]_vars

\* C8's case: the returned geometry, given new nodes and elements with ids of
\* their own, has just been re-indexed
C8_Witness ==
    /\ last.op = "reindex" /\ last.self = "sub" /\ last.ok /\ ~IsNone(sub)
    /\ Get(last.pre).node_ids # Range(Get(sub).n_nodes)

\* Whether layer number n is one get_element_ids_layer_n folds
Folded(geom, n) ==
    n > Get(geom.n_layers) - Get(geom.n_sigma) /\ n <= Get(geom.n_layers)

\* C5: get_element_ids_layer_n(n) with n_z < n <= n_layers, where
\* n_z = n_layers - n_sigma, returns what get_element_ids_layer_n(n - n_layers)
\* returns, which is top_element_ids + (n - n_layers); n = n_layers returns
\* top_element_ids.
C5_LayerFolding ==
    (last.op = "get_element_ids_layer_n" /\ Layered(g) /\ Folded(g, last.args)) =>
        LET top == Get(g.source)
            shift == last.args - Get(g.n_layers)
            other == get_element_ids_layer_n(g, shift)
        IN  /\ last.ok /\ other.ok
            /\ last.val = other.val
            /\ last.val = Some([c \in 1..Len(top) |-> top[c] + shift])
            /\ (shift = 0 => last.val = Some(top))

\* C5's case: layer 2 of 3, the lower of two sigma layers, asked for by its
\* number from the bottom
C5_Witness ==
    /\ last.op = "get_element_ids_layer_n" /\ last.ok
    /\ g.n_layers = Some(3) /\ g.n_sigma = Some(2) /\ last.args = 2

\* C6: get_element_ids_layer_n(n) on a layered geometry raises its layer error
\* when |n| > n_layers and when n is negative with -n > n_sigma, and raises
\* nothing for any other n.
C6_InvalidLayer ==
    (last.op = "get_element_ids_layer_n" /\ Layered(g)) =>
        LET n == last.args
            n_lay == Get(g.n_layers)
            n_sigma == Get(g.n_sigma)
            invalid == n > n_lay \/ -n > n_lay \/ (n < 0 /\ -n > n_sigma)
        IN  /\ last.ok <=> ~invalid
            /\ ~last.ok => last.err \in
                  {"Exception: Layer not allowed",
                   "Exception: Negative layers only possible for sigma layers"}

\* C6's case: a negative layer within the layer count but below the sigma layers
C6_Witness ==
    /\ last.op = "get_element_ids_layer_n" /\ ~last.ok /\ Layered(g)
    /\ last.args < 0 /\ -last.args <= Get(g.n_layers)

\* C9: a read of valid_codes or element_coordinates returns the value computed
\* from the node and element arrays the geometry has at the read, whatever
\* set_nodes, set_elements and reindex calls went before.
C9_CachesFresh ==
    /\ last.op = "valid_codes" => last.val = Some(Elems(g.codes))
    /\ (last.op = "element_coordinates" /\ last.ok) =>
            last.val = get_element_coords(g, rows).val

\* The layer arrays read are consistent with each other
C9_LayerArrays ==
    (Layered(g) /\ last.ok) =>
        /\ last.op = "top_element_ids" => last.val = g.source
        /\ last.op = "num_layers_per_column" =>
                last.val = Some(forward_difference(Get(g.source)))

\* C10: get_nodes_and_table_for_elements(element_ids, node_layers), an element
\* id selecting the row at that place of the element table, returns the node
\* ids of the returned table ascending and without duplicates, and a table
\* with one row per selected element in selection order: for a layered geometry
\* the whole row for 'all', its first half for 'bottom' and its second half for
\* 'top'; for a 2D geometry the whole row whatever node_layers is.
C10_NodesAndTable ==
    (last.op = "get_nodes_and_table_for_elements"
        /\ AllInRange(last.args[1], Len(g.element_table))) =>
        LET elements == last.args[1]
            node_layers == last.args[2]
            tbl == Deref(rows, g.element_table)
            out == last.val.elem_tbl
            whole(k) == tbl[elements[k] + 1]
            mid(k) == Len(whole(k)) \div 2
        IN  /\ last.ok
            /\ StrictlyIncreasing(last.val.nodes)
            /\ Elems(last.val.nodes) = UNION {Elems(out[k]) : k \in 1..Len(out)}
            /\ Len(out) = Len(elements)
            /\ \A k \in 1..Len(out) :
                  out[k] = IF is_2d(g) \/ node_layers = "all" THEN whole(k)
                           ELSE IF node_layers = "bottom" THEN SubSeq(whole(k), 1, mid(k))
                           ELSE SubSeq(whole(k), mid(k) + 1, Len(whole(k)))

\* C10's case: the top nodes of two prisms that share nodes
C10_Witness ==
    /\ last.op = "get_nodes_and_table_for_elements" /\ last.ok
    /\ ~is_2d(g) /\ last.args[2] = "top" /\ Len(last.args[1]) = 2
    /\ Len(last.val.nodes) < 6

\* C11: elements_to_geometry with a node_layers that is none of all, top and
\* bottom raises its node_layers error and returns no geometry, on a 2D
\* geometry as on a layered one.
C11_InvalidNodeLayers ==
    (last.op = "elements_to_geometry" /\ last.args[2] \notin {"all", "top", "bottom"}) =>
        /\ ~last.ok
        /\ last.err = "Exception: node_layers must be either all, bottom or top"
        /\ IsNone(sub)

\* The part of C11 about layered geometries
C11_LayeredRefuses ==
    (last.op = "elements_to_geometry" /\ last.args[2] \notin {"all", "top", "bottom"}
        /\ ~is_2d(g)) =>
        /\ ~last.ok
        /\ last.err = "Exception: node_layers must be either all, bottom or top"
        /\ IsNone(sub)

\* C12: on a geometry without layers, num_layers_per_column and
\* to_2d_geometry() raise an error at the call and return no value.
C12_NoLayersRaises ==
    (last.op \in {"num_layers_per_column", "to_2d_geometry"} /\ ~Layered(g)) =>
        ~last.ok

\* The squared distances of the centroids of g from the point of the last call
Distances ==
    LET ec == Get(g.ec)
    IN  [j \in 1..Len(ec) |->
            squared_distance(ec[j], last.args.pt.x, last.args.pt.y, last.args.pt.z)]

C13_Nearest ==
    (last.op = "find_n_closest_element_index" /\ last.ok) =>
        LET d == Distances
            idx == last.val.idx
            n == last.args.n
        IN  /\ last.val.scalar <=> n = 1
            /\ Len(idx) = Min({n, Len(d)})
            /\ \A a, b \in 1..Len(idx) : a < b =>
                  idx[a] # idx[b] /\ d[idx[a] + 1] <= d[idx[b] + 1]
            /\ \A j \in 0..(Len(d) - 1) : j \notin Elems(idx) =>
                  \A a \in 1..Len(idx) : d[idx[a] + 1] <= d[j + 1]

\* C14: find_closest_element_index called with sequences raises an error and
\* returns no result when x and y differ in length, and when z is given with a
\* length other than that of x and y.
C14_ShapeMismatch ==
    (last.op = "find_closest_element_index" /\ ~last.args.scalar
        /\ (\/ Len(last.args.x) # Len(last.args.y)
            \/ ~IsNone(last.args.z) /\ Len(Get(last.args.z)) # Len(last.args.x))) =>
        ~last.ok

\* The part of C14 about x and y
C14_XYMismatch ==
    (last.op = "find_closest_element_index" /\ ~last.args.scalar
        /\ Len(last.args.x) # Len(last.args.y)) =>
        ~last.ok /\ last.err = "Exception"

\* The coordinates of the nodes of geom whose code is code
NodesOfCode(geom, code) ==
    Masked(geom.nc, [k \in 1..Len(geom.nc) |-> geom.codes[k] = code])

\* What C15 and its parts say of a call of get_node_coords on g
NodeCoordsAsClaimed ==
    LET code == last.args
    IN  IF IsNone(code) THEN last.ok /\ last.val = g.nc
        ELSE IF Get(code) \in Elems(g.codes)
             THEN last.ok /\ last.val = NodesOfCode(g, Get(code))
        ELSE ~last.ok

\* C15: get_node_coords(code) returns the coordinates of the nodes whose code
\* is code, of all nodes when code is omitted, and raises an error for a code
\* that no node of the geometry has.
C15_NodeCoords ==
    (last.op = "get_node_coords" /\ Len(g.codes) = Len(g.nc)) => NodeCoordsAsClaimed

\* C15 where the cached valid_codes are those of the codes the geometry has
C15_FreshCodes ==
    (last.op = "get_node_coords" /\ Len(g.codes) = Len(g.nc)
        /\ (IsNone(g.valid_codes) \/ g.valid_codes = Some(Elems(g.codes)))) =>
        NodeCoordsAsClaimed

\* C16: set_nodes never leaves the geometry with a node count, a code array
\* or an id array that is not as long as the node coordinates: it raises an
\* error when the codes or ids given are not as many as the coordinates.
C16_SetNodesShapes ==
    (last.op = "set_nodes") =>
        \/ ~last.ok
        \/ /\ g.n_nodes = Len(g.nc)
           /\ Len(g.codes) = Len(g.nc)
           /\ Len(g.node_ids) = Len(g.nc)

\* set_nodes with codes and ids as many as the coordinates, or left out
C16_MatchingShapes ==
    (last.op = "set_nodes"
        /\ (IsNone(last.args.codes) \/ Len(Get(last.args.codes)) = Len(last.args.coords))
        /\ (IsNone(last.args.ids) \/ Len(Get(last.args.ids)) = Len(last.args.coords))) =>
        /\ last.ok
        /\ g.nc = last.args.coords
        /\ g.n_nodes = Len(g.nc)
        /\ Len(g.codes) = Len(g.nc)
        /\ Len(g.node_ids) = Len(g.nc)

\* C17: set_elements(table, ids, type) replaces the elements; the element ids
\* are 0..n-1 when ids is omitted; when type is omitted the type is a 2D type
\* if no element has 5 nodes or more and a layered type otherwise; a type given
\* by the caller is stored as it is.
C17_SetElements ==
    (last.op = "set_elements") =>
        LET in == last.args
            n == Len(in.table)
            most == Max({Len(in.table[j]) : j \in 1..n})
        IN  /\ last.ok
            /\ Deref(rows, g.element_table) = in.table
            /\ g.n_elements = n
            /\ g.element_ids = (IF IsNone(in.ids) THEN Range(n) ELSE Get(in.ids))
            /\ IsNone(in.type) => (is_2d(g) <=> most < 5)
            /\ ~IsNone(in.type) => g.type = in.type

\* C17's case: a table with a prism and a triangle, ids and type omitted
C17_Witness ==
    /\ last.op = "set_elements" /\ last.ok
    /\ IsNone(last.args.ids) /\ IsNone(last.args.type)
    /\ Len(last.args.table) = 2 /\ Len(last.args.table[1]) = 6
    /\ g.type = Some(4) /\ g.element_ids = <<0, 1>>

\* The x and y of the nodes an element row refers to, as element_coordinates
\* resolves the references
Corners(geom, row) ==
    [i \in 1..Len(row) |-> <<Item(geom.nc, row[i])[1], Item(geom.nc, row[i])[2]>>]

\* The area of a triangle or quadrilateral from its corners: half of ab x ac,
\* and for a quadrilateral the fan of ab x ac and ac x ad
PlanarArea(xy) ==
    LET cross(u, v) == (xy[u][1] - xy[1][1]) * (xy[v][2] - xy[1][2])
                       - (xy[u][2] - xy[1][2]) * (xy[v][1] - xy[1][1])
        fan == cross(2, 3) \div 2 + (IF Len(xy) > 3 THEN cross(3, 4) \div 2 ELSE 0)
    IN  IF fan < 0 THEN -fan ELSE fan

\* C18: on a geometry built from raw node and element arrays, with a
\* projection that is not geographic, get_element_area() returns one value per
\* element, none negative: half of |ab x ac| for a triangle and the absolute
\* value of the fan for a quadrilateral.
C18_ElementArea ==
    (last.op = "get_element_area" /\ IsNone(g.source) /\ ~is_geo(g)
        /\ RefIntegrity(Range(Len(g.nc)), Deref(rows, g.element_table))) =>
        LET tbl == Deref(rows, g.element_table)
        IN  /\ last.ok
            /\ Len(last.val.area) = g.n_elements
            /\ \A j \in 1..Len(tbl) :
                  /\ last.val.area[j] >= 0
                  /\ last.val.area[j] = PlanarArea(Corners(g, tbl[j]))

\* The areas of a geometry read from a file, whose elements are prisms over
\* the triangles of the footprint
C18_FileAreas ==
    (last.op = "get_element_area" /\ ~IsNone(g.source)) =>
        LET tbl == Deref(rows, g.element_table)
        IN  /\ last.ok /\ ~last.val.converted
            /\ Len(last.val.area) = g.n_elements
            /\ \A j \in 1..Len(tbl) :
                  last.val.area[j] = PlanarArea(SubSeq(Corners(g, tbl[j]), 1, 3))

\* C19: to_polygons() returns one polygon per element, in the order of the
\* elements, whose i-th vertex is the (x, y) of the i-th node of the element's
\* row, the node element_coordinates takes for that reference.
C19_Polygons ==
    (last.op = "to_polygons"
        /\ RefIntegrity(Range(Len(g.nc)), Deref(rows, g.element_table))) =>
        LET tbl == Deref(rows, g.element_table)
        IN  /\ last.ok
            /\ Len(last.val) = g.n_elements
            /\ \A j \in 1..Len(tbl) : last.val[j] = Corners(g, tbl[j])

\* What to_polygons does return: one polygon per element with as many vertices
\* as the element has nodes
C19_PolygonCount ==
    (last.op = "to_polygons"
        /\ RefIntegrity(Range(Len(g.nc)), Deref(rows, g.element_table))) =>
        LET tbl == Deref(rows, g.element_table)
        IN  /\ last.ok
            /\ Len(last.val) = g.n_elements
            /\ \A j \in 1..Len(tbl) : Len(last.val[j]) = Len(tbl[j])

\* The columns get_element_ids_layer_n(n) selects from, in the order of its
\* result: all columns for a sigma layer, those of at least n_layers - n + 1
\* layers for a z layer
ColumnsOfLayer(geom, n) ==
    LET layers == forward_difference(Get(geom.source))
        all == [c \in 1..Len(layers) |-> c]
    IN  IF n <= 0 \/ Folded(geom, n) THEN all
        ELSE Masked(all, [c \in 1..Len(layers) |->
                            layers[c] >= Get(geom.n_layers) - n + 1])

\* Every id of the last result lies in the column it was selected from
WithinColumns ==
    LET top == Get(g.source)
        layers == forward_difference(top)
        cols == ColumnsOfLayer(g, last.args)
        ids == Get(last.val)
    IN  /\ Len(ids) = Len(cols)
        /\ \A k \in 1..Len(ids) :
              /\ ids[k] >= top[cols[k]] - layers[cols[k]] + 1
              /\ ids[k] <= top[cols[k]]

\* The layers 1..n_layers of g share no element and hold every element
LayersPartition ==
    LET layer(n) == get_element_ids_layer_n(g, n)
        n_lay == Get(g.n_layers)
    IN  /\ \A n \in 1..n_lay : layer(n).ok
        /\ \A n \in 1..n_lay : \A a, b \in 1..Len(Get(layer(n).val)) :
              a # b => Get(layer(n).val)[a] # Get(layer(n).val)[b]
        /\ \A m, n \in 1..n_lay :
              m # n => Elems(Get(layer(m).val)) \cap Elems(Get(layer(n).val)) = {}
        /\ UNION {Elems(Get(layer(n).val)) : n \in 1..n_lay} = 0..(g.n_elements - 1)

\* C20: in a layered geometry whose columns are contiguous from bottom to top,
\* every id get_element_ids_layer_n(n) returns for an accepted n lies between
\* the bottom and the top element of the column it is selected from, and the
\* results for n = 1..n_layers are pairwise disjoint and hold every element id
\* exactly once.
C20_LayersCoverColumns ==
    (last.op = "get_element_ids_layer_n" /\ Layered(g) /\ last.ok) =>
        WithinColumns /\ LayersPartition

\* C20 on sigma files, where every column has all n_layers layers, for the
\* layers 1..n_layers and their numbers from the top, 0 down to 1 - n_layers
C20_SigmaFiles ==
    (last.op = "get_element_ids_layer_n" /\ Layered(g) /\ last.ok
        /\ g.n_sigma = g.n_layers /\ last.args > -Get(g.n_sigma)) =>
        WithinColumns /\ LayersPartition

====
